---- MODULE Spec2Model ----
(***************************************************************************)
(* Webhook dashboard: the blob-storage service                             *)
(* (server/services/blobStorage.ts), the REST routes in front of it, and   *)
(* the state of the two pages of the front end.                            *)
(*                                                                         *)
(* Strings are sequences of one-character strings, so that includes,       *)
(* endsWith, toLowerCase, split and Date parsing are computed and not      *)
(* assumed.  A timestamp is written DD "T" H (two digits of date, one of   *)
(* time) and a date folder DD, standing for yyyy-MM-dd.                    *)
(***************************************************************************)
EXTENDS Integers, Sequences, FiniteSets, TLC

VARIABLES
    store,             \* the container: blob name -> content
    res,               \* the response of the request being served
    connectionString,  \* process.env.AZURE_STORAGE_CONNECTION_STRING || ''
    containerClient,   \* the module's client of the container, "null" until made
    listOrder,         \* the order in which the store enumerates its names
    calls,             \* the deleteWebhook calls in flight
    pager,             \* a client reading a result page after page
    dashboard,         \* the state of DashboardPage
    listPage           \* the state of WebhookListPage

vars == <<store, res, connectionString, containerClient, listOrder, calls, pager,
          dashboard, listPage>>

\* What a run of the server never changes.
environment == <<connectionString, listOrder>>

\* The state held by the clients of the server.
clients == <<calls, pager, dashboard, listPage>>

---------------------------------------------------------------------------
(* Bounds of the model. *)

\* At most this many blobs are in the container.
MaxBlobs == 3
\* Pages requested run from MinPage (below) to MaxPage.
MaxPage == 3
\* Limits requested run from 1 to MaxLimit (and the default).
MaxLimit == 2
\* At most this many reads fail during one scan.
MaxReadFailures == 1
\* The pagination control of the list page offers pages 1 to MaxListPage.
MaxListPage == 3
\* The dashboard is shown at most this many webhooks.
MaxWebhooks == 3

---------------------------------------------------------------------------
(* JavaScript strings. *)

UpperChars == <<"A","B","C","D","E","F","G","H","I","J","K","L","M",
                "N","O","P","Q","R","S","T","U","V","W","X","Y","Z">>
LowerChars == <<"a","b","c","d","e","f","g","h","i","j","k","l","m",
                "n","o","p","q","r","s","t","u","v","w","x","y","z">>
DigitChars == <<"0","1","2","3","4","5","6","7","8","9">>

\* The characters of the model's strings, in code-unit order.
CharOrder ==
    <<"\"", ".", "/">> \o DigitChars \o <<":">> \o UpperChars \o <<"\\">> \o LowerChars
      \o <<"{", "}">>

CharSet == {CharOrder[i] : i \in 1..Len(CharOrder)}

CharCode == [c \in CharSet |-> CHOOSE i \in 1..Len(CharOrder) : CharOrder[i] = c]

LowerOf ==
    [c \in CharSet |->
        IF \E i \in 1..26 : UpperChars[i] = c
        THEN LowerChars[CHOOSE i \in 1..26 : UpperChars[i] = c] ELSE c]

UpperOf ==
    [c \in CharSet |->
        IF \E i \in 1..26 : LowerChars[i] = c
        THEN UpperChars[CHOOSE i \in 1..26 : LowerChars[i] = c] ELSE c]

DigitSet == {DigitChars[i] : i \in 1..10}

DigitValue == [c \in DigitSet |-> (CHOOSE i \in 1..10 : DigitChars[i] = c) - 1]

ToLowerCase(s) == [i \in 1..Len(s) |-> LowerOf[s[i]]]

ToUpperCase(s) == [i \in 1..Len(s) |-> UpperOf[s[i]]]

\* String.prototype.includes
Includes(s, t) ==
    \E i \in 0..(Len(s) - Len(t)) : SubSeq(s, i + 1, i + Len(t)) = t

StartsWith(s, t) ==
    Len(t) <= Len(s) /\ SubSeq(s, 1, Len(t)) = t

EndsWith(s, t) ==
    Len(t) <= Len(s) /\ SubSeq(s, Len(s) - Len(t) + 1, Len(s)) = t

RECURSIVE StrLess(_, _)
StrLess(s, t) ==
    IF t = <<>> THEN FALSE
    ELSE IF s = <<>> THEN TRUE
    ELSE IF Head(s) = Head(t) THEN StrLess(Tail(s), Tail(t))
    ELSE CharCode[Head(s)] < CharCode[Head(t)]

---------------------------------------------------------------------------
(* JavaScript values: a string, a number (held with its decimal text), a   *)
(* plain object of string values (held as a sequence of <<key, value>>     *)
(* pairs) or undefined.                                                    *)

Str(s) == [t |-> "string", s |-> s, m |-> <<>>]
Obj(m) == [t |-> "object", s |-> <<>>, m |-> m]
Undefined == [t |-> "undefined", s |-> <<>>, m |-> <<>>]
Number(digits) == [t |-> "number", s |-> digits, m |-> <<>>]

IsString(v) == v.t = "string"

\* ToBoolean: undefined, the empty string and the number 0 are falsy.
Truthy(v) ==
    \/ v.t = "object"
    \/ (v.t = "string" /\ v.s # <<>>)
    \/ (v.t = "number" /\ v.s # <<"0">>)

\* String(v), for a string or a number
StringOf(v) == v.s

\* a || b
OrElse(a, b) == IF Truthy(a) THEN a ELSE b

\* Object.values
ObjectValues(v) ==
    IF v.t = "object" THEN [i \in 1..Len(v.m) |-> v.m[i][2]]
    ELSE IF v.t = "string" THEN [i \in 1..Len(v.s) |-> <<v.s[i]>>]
    ELSE <<>>

\* raw.Name on a parsed JSON object
Get(raw, name) == IF name \in DOMAIN raw THEN raw[name] ELSE Undefined

---------------------------------------------------------------------------
(* JSON.parse, on the texts a RawBody holds: the object {}, an object      *)
(* {"conversation":{"id":"<text>"}}, an object {"conversation":{"id":<n>}} *)
(* with n a whole number, and text that is not JSON.                       *)

ConvPrefix ==
    <<"{","\"","c","o","n","v","e","r","s","a","t","i","o","n","\"",":",
      "{","\"","i","d","\"",":","\"">>
ConvSuffix == <<"\"","}","}">>

IsConvJson(s) ==
    /\ Len(s) >= Len(ConvPrefix) + Len(ConvSuffix)
    /\ StartsWith(s, ConvPrefix)
    /\ EndsWith(s, ConvSuffix)
    /\ \A i \in (Len(ConvPrefix) + 1)..(Len(s) - Len(ConvSuffix)) : s[i] \notin {"\"", "\\"}

ConvNumPrefix == SubSeq(ConvPrefix, 1, Len(ConvPrefix) - 1)
ConvNumSuffix == <<"}","}">>

\* The JSON grammar of a whole number: digits, no leading zero.
IsConvNumJson(s) ==
    /\ Len(s) > Len(ConvNumPrefix) + Len(ConvNumSuffix)
    /\ StartsWith(s, ConvNumPrefix)
    /\ EndsWith(s, ConvNumSuffix)
    /\ \A i \in (Len(ConvNumPrefix) + 1)..(Len(s) - Len(ConvNumSuffix)) : s[i] \in DigitSet
    /\ (s[Len(ConvNumPrefix) + 1] = "0" =>
            Len(s) = Len(ConvNumPrefix) + Len(ConvNumSuffix) + 1)

\* JSON.parse(s) throws a SyntaxError
JsonParseThrows(s) == ~(s = <<"{", "}">> \/ IsConvJson(s) \/ IsConvNumJson(s))

\* JSON.parse(s)?.conversation?.id
ConversationIdOf(s) ==
    IF IsConvJson(s)
    THEN Str(SubSeq(s, Len(ConvPrefix) + 1, Len(s) - Len(ConvSuffix)))
    ELSE IF IsConvNumJson(s)
    THEN Number(SubSeq(s, Len(ConvNumPrefix) + 1, Len(s) - Len(ConvNumSuffix)))
    ELSE Undefined

---------------------------------------------------------------------------
(* new Date(v).getTime(): a number, or NaN for what does not parse.        *)

IsTimestamp(s) ==
    /\ Len(s) = 4
    /\ s[1] \in DigitSet
    /\ s[2] \in DigitSet
    /\ s[3] = "T"
    /\ s[4] \in DigitSet

TimeIsNaN(v) == ~(IsString(v) /\ IsTimestamp(v.s))

GetTime(v) == 100 * DigitValue[v.s[1]] + 10 * DigitValue[v.s[2]] + DigitValue[v.s[4]]

---------------------------------------------------------------------------
(* The container: blob names and blob contents.  A content is what         *)
(* JSON.parse makes of the blob: a SyntaxError, or an object with some     *)
(* fields.                                                                 *)

JsonExt == <<".","j","s","o","n">>

Key1 == <<"0","1","/","a","b">> \o JsonExt
Key2 == <<"0","1","/","a","b","c">> \o JsonExt
Key3 == <<"0","2","/","z","z">> \o JsonExt
Key4 == <<"0","2","/","a","b",".","t","x","t">>

Keys == {Key1, Key2, Key3, Key4}

ConvBody == ConvPrefix \o <<"C","v">> \o ConvSuffix

PascalNames == <<"Id","ReceivedAt","Method","Path","Headers","QueryParameters",
                 "RawBody","ContentType","SourceIp">>
CamelNames == <<"id","receivedAt","method","path","headers","queryParameters",
                "rawBody","contentType","sourceIp">>

FieldsA ==
    [Id |-> Str(<<"a","b">>),
     ReceivedAt |-> Str(<<"0","1","T","1">>),
     Method |-> Str(<<"G","E","T">>),
     Path |-> Str(<<"/","p">>),
     Headers |-> Obj(<< << <<"X","-","F","o","o">>, <<"A","b","C">> >> >>),
     QueryParameters |-> Obj(<< << <<"q">>, <<"y">> >> >>),
     RawBody |-> Str(ConvBody),
     ContentType |-> Str(<<"j">>),
     SourceIp |-> Str(<<"i","p">>)]

\* Same timestamp as A.
FieldsB ==
    [Id |-> Str(<<"a","b","c">>),
     ReceivedAt |-> Str(<<"0","1","T","1">>),
     Method |-> Str(<<"G","E","T">>),
     Path |-> Str(<<"/","q">>),
     RawBody |-> Str(<<"h","i">>)]

\* Later than A, another method in lower case, no optional field.
FieldsC ==
    [Id |-> Str(<<"z","z">>),
     ReceivedAt |-> Str(<<"0","2","T","1">>),
     Method |-> Str(<<"p","o","s","t">>),
     Path |-> Str(<<"/","p">>)]

\* The object with every capitalized field name written in lower camel case.
CamelOf(name) ==
    IF \E i \in 1..Len(PascalNames) : PascalNames[i] = name
    THEN CamelNames[CHOOSE i \in 1..Len(PascalNames) : PascalNames[i] = name]
    ELSE name

Camelize(fields) ==
    [n \in {CamelOf(m) : m \in DOMAIN fields} |->
        fields[CHOOSE m \in DOMAIN fields : CamelOf(m) = n]]

\* The object without one field.
Without(fields, name) == [n \in DOMAIN fields \ {name} |-> fields[n]]

Parsed(fields) == [parse |-> "object", fields |-> fields]
BadJson == [parse |-> "error", fields |-> <<>>]

\* B with a receivedAt that is no timestamp.
FieldsBadTime == [FieldsB EXCEPT !.ReceivedAt = Str(<<"x">>)]

Contents ==
    { Parsed(FieldsA), Parsed(FieldsC), Parsed(FieldsBadTime),
      Parsed(Camelize(FieldsA)), Parsed(Without(FieldsB, "Method")), BadJson }

\* The blob that is no .json blob is never read: one content stands for all.
ContentsOf(k) == IF EndsWith(k, JsonExt) THEN Contents ELSE {Parsed(FieldsC)}

\* Records met by the filters and the counters: B itself, D with the body
\* {} and a query parameter named bc, E and F with a conversation whose id
\* is the number 0 or 10, and A without its timestamp.
ConvNumBody(digits) == ConvNumPrefix \o digits \o ConvNumSuffix

FieldsD ==
    [Id |-> Str(<<"d">>),
     ReceivedAt |-> Str(<<"0","2","T","2">>),
     Method |-> Str(<<"G","e","t">>),
     Path |-> Str(<<"/","d">>),
     QueryParameters |-> Obj(<< << <<"b","c">>, <<"y">> >> >>),
     RawBody |-> Str(<<"{","}">>),
     SourceIp |-> Str(<<"i","p","x">>)]

FieldsE ==
    [Id |-> Str(<<"e">>),
     ReceivedAt |-> Str(<<"0","3","T","1">>),
     Method |-> Str(<<"P","O","S","T">>),
     Path |-> Str(<<"/","e">>),
     RawBody |-> Str(ConvNumBody(<<"0">>)),
     SourceIp |-> Str(<<"i","p">>)]

FieldsF == [FieldsE EXCEPT !.Id = Str(<<"f">>), !.RawBody = Str(ConvNumBody(<<"1","0">>))]

ScanContents ==
    Contents \cup
    { Parsed(FieldsB), Parsed(FieldsD), Parsed(FieldsE), Parsed(FieldsF),
      Parsed(Without(FieldsA, "ReceivedAt")) }

\* Every container of at most MaxBlobs blobs.
Stores ==
    UNION { {st \in [ks -> Contents] : \A k \in ks : st[k] \in ContentsOf(k)} :
              ks \in {s \in SUBSET Keys : Cardinality(s) <= MaxBlobs} }

\* The containers met by the filters and the counters.
ScanStores ==
    UNION { {st \in [ks -> ScanContents] :
                \A k \in ks : EndsWith(k, JsonExt) \/ st[k] = Parsed(FieldsC)} :
              ks \in {s \in SUBSET Keys : Cardinality(s) <= MaxBlobs} }

\* The containers met by the date listing: also a name with no folder and a
\* name with two folders.
KeyFlat == <<"z","z">> \o JsonExt
KeyDeep == <<"0","3","/","a","/","b">> \o JsonExt

DateKeys == Keys \cup {KeyFlat, KeyDeep}

DateStores ==
    UNION { [ks -> {Parsed(FieldsA), BadJson}] :
              ks \in {s \in SUBSET DateKeys : Cardinality(s) <= MaxBlobs} }

---------------------------------------------------------------------------
(* The record loader. *)

\* transformWebhook without the || defaults of the optional fields.
transformWebhookNoDefaults(raw) ==
    [id |-> Get(raw, "Id"),
     receivedAt |-> Get(raw, "ReceivedAt"),
     method |-> Get(raw, "Method"),
     path |-> Get(raw, "Path"),
     headers |-> Get(raw, "Headers"),
     queryParameters |-> Get(raw, "QueryParameters"),
     rawBody |-> Get(raw, "RawBody"),
     contentType |-> Get(raw, "ContentType"),
     sourceIp |-> Get(raw, "SourceIp")]

\* transformWebhook: reads the capitalized names only; the optional fields
\* default through ||.
transformWebhook(raw) ==
    [id |-> Get(raw, "Id"),
     receivedAt |-> Get(raw, "ReceivedAt"),
     method |-> Get(raw, "Method"),
     path |-> Get(raw, "Path"),
     headers |-> OrElse(Get(raw, "Headers"), Obj(<<>>)),
     queryParameters |-> OrElse(Get(raw, "QueryParameters"), Obj(<<>>)),
     rawBody |-> OrElse(Get(raw, "RawBody"), Str(<<>>)),
     contentType |-> OrElse(Get(raw, "ContentType"), Str(<<>>)),
     sourceIp |-> OrElse(Get(raw, "SourceIp"), Str(<<>>))]

RECURSIVE SortedKeys(_)
SortedKeys(ks) ==
    IF ks = {} THEN <<>>
    ELSE LET k == CHOOSE x \in ks : \A y \in ks \ {x} : StrLess(x, y)
         IN  <<k>> \o SortedKeys(ks \ {k})

\* The names of the container under the prefix, as a store that enumerates
\* its names in the given order yields them.
Enumerate(order, st, prefix) ==
    SelectSeq(order,
              LAMBDA k : k \in DOMAIN st /\ (Truthy(prefix) => StartsWith(k, prefix.s)))

\* container.listBlobsFlat(options)
listBlobsFlat(st, prefix) == Enumerate(listOrder, st, prefix)

\* listBlobs without the test of the extension.
listBlobsAnyExtension(st, prefix) == listBlobsFlat(st, prefix)

\* listBlobs: keeps the names that end in .json
listBlobs(st, prefix) ==
    SelectSeq(listBlobsFlat(st, prefix), LAMBDA k : EndsWith(k, JsonExt))

\* readBlobAsJson throws: the download fails (the store errs, or another
\* writer removed the blob after it was listed) or the content is not JSON.
readBlobAsJsonThrows(st, k, failing) ==
    k \in failing \/ st[k].parse = "error"

\* The try block of a scan throws: transformWebhook does not throw on an
\* object, so the read does.
LoadThrows(st, k, failing) == readBlobAsJsonThrows(st, k, failing)

\* ReadAll with a catch block that pushes an empty record for the blob.
ReadAllKeepingFailures(st, blobs, failing) ==
    [i \in 1..Len(blobs) |->
        IF LoadThrows(st, blobs[i], failing) THEN transformWebhook(<<>>)
        ELSE transformWebhook(st[blobs[i]].fields)]

\* The webhooks array of getWebhooks: one record per blob that loaded.
ReadAll(st, blobs, failing) ==
    LET loadable == SelectSeq(blobs, LAMBDA k : ~LoadThrows(st, k, failing))
    IN  [i \in 1..Len(loadable) |-> transformWebhook(st[loadable[i]].fields)]

---------------------------------------------------------------------------
(* The filters of getWebhooks.  A filter stage either throws (a TypeError  *)
(* from a method call on a value that is no string) or keeps the records   *)
(* its predicate accepts.                                                  *)

Kept(list) == [threw |-> FALSE, list |-> list]
Threw == [threw |-> TRUE, list |-> <<>>]

\* w.method.toUpperCase() === method.toUpperCase()
MethodMatches(w, method) == ToUpperCase(w.method.s) = ToUpperCase(method.s)

MethodStage(list, method) ==
    IF ~Truthy(method) THEN Kept(list)
    ELSE IF \E i \in 1..Len(list) : ~IsString(list[i].method) THEN Threw
    ELSE Kept(SelectSeq(list, LAMBDA w : MethodMatches(w, method)))

\* w.sourceIp === sourceIp
SourceIpStage(list, sourceIp) ==
    IF ~Truthy(sourceIp) THEN Kept(list)
    ELSE Kept(SelectSeq(list, LAMBDA w : IsString(w.sourceIp) /\ w.sourceIp.s = sourceIp.s))

ValuesInclude(v, term) ==
    \E i \in 1..Len(ObjectValues(v)) : Includes(ToLowerCase(ObjectValues(v)[i]), term)

\* SearchEval without toLowerCase on the fields of the record.
SearchEvalCaseSensitive(w, term) ==
    IF ~IsString(w.id) THEN "throw"
    ELSE IF Includes(w.id.s, term) THEN "true"
    ELSE IF ~IsString(w.path) THEN "throw"
    ELSE IF Includes(w.path.s, term) THEN "true"
    ELSE IF ~IsString(w.rawBody) THEN "throw"
    ELSE IF Includes(w.rawBody.s, term) THEN "true"
    ELSE IF ~IsString(w.contentType) THEN "throw"
    ELSE IF Includes(w.contentType.s, term) THEN "true"
    ELSE IF \E i \in 1..Len(ObjectValues(w.headers)) : Includes(ObjectValues(w.headers)[i], term)
        THEN "true"
    ELSE IF \E i \in 1..Len(ObjectValues(w.queryParameters)) :
                Includes(ObjectValues(w.queryParameters)[i], term)
        THEN "true"
    ELSE "false"

\* The search predicate: "true", "false" or "throw"; || evaluates left to
\* right and stops at the first operand that holds.
SearchEval(w, term) ==
    IF ~IsString(w.id) THEN "throw"
    ELSE IF Includes(ToLowerCase(w.id.s), term) THEN "true"
    ELSE IF ~IsString(w.path) THEN "throw"
    ELSE IF Includes(ToLowerCase(w.path.s), term) THEN "true"
    ELSE IF ~IsString(w.rawBody) THEN "throw"
    ELSE IF Includes(ToLowerCase(w.rawBody.s), term) THEN "true"
    ELSE IF ~IsString(w.contentType) THEN "throw"
    ELSE IF Includes(ToLowerCase(w.contentType.s), term) THEN "true"
    ELSE IF ValuesInclude(w.headers, term) THEN "true"
    ELSE IF ValuesInclude(w.queryParameters, term) THEN "true"
    ELSE "false"

SearchStage(list, search) ==
    IF ~Truthy(search) THEN Kept(list)
    ELSE IF \E i \in 1..Len(list) : SearchEval(list[i], ToLowerCase(search.s)) = "throw" THEN Threw
    ELSE Kept(SelectSeq(list, LAMBDA w : SearchEval(w, ToLowerCase(search.s)) = "true"))

\* The conversationId predicate: its try/catch turns a parse error into false.
ConversationMatches(w, convIdLower) ==
    /\ Truthy(w.rawBody)
    /\ IsString(w.rawBody)
    /\ ~JsonParseThrows(w.rawBody.s)
    /\ Truthy(ConversationIdOf(w.rawBody.s))
    /\ Includes(ToLowerCase(StringOf(ConversationIdOf(w.rawBody.s))), convIdLower)

ConversationStage(list, conversationId) ==
    IF ~Truthy(conversationId) THEN Kept(list)
    ELSE Kept(SelectSeq(list, LAMBDA w : ConversationMatches(w, ToLowerCase(conversationId.s))))

\* Lines 139-175: the four stages in the order of the code.
ApplyFilters(webhooks, p) ==
    LET a == MethodStage(webhooks, p.method)
        b == IF a.threw THEN a ELSE SourceIpStage(a.list, p.sourceIp)
        c == IF b.threw THEN b ELSE SearchStage(b.list, p.search)
    IN  IF c.threw THEN c ELSE ConversationStage(c.list, p.conversationId)

---------------------------------------------------------------------------
(* Array.prototype.sort with the comparator of getWebhooks, and slice.     *)

\* (a, b) => new Date(b.receivedAt).getTime() - new Date(a.receivedAt).getTime();
\* sort reads a NaN result as +0.
Compare(a, b) ==
    IF TimeIsNaN(a.receivedAt) \/ TimeIsNaN(b.receivedAt) THEN 0
    ELSE GetTime(b.receivedAt) - GetTime(a.receivedAt)

\* The comparator is a consistent comparator for the elements (ECMAScript,
\* Array.prototype.sort): equality and order under it are transitive.
ConsistentComparator(list) ==
    \A i, j, k \in 1..Len(list) :
        /\ (Compare(list[i], list[j]) = 0 /\ Compare(list[j], list[k]) = 0)
              => Compare(list[i], list[k]) = 0
        /\ (Compare(list[i], list[j]) < 0 /\ Compare(list[j], list[k]) < 0)
              => Compare(list[i], list[k]) < 0

\* x placed after every element that does not sort after it.
RECURSIVE InsertSorted(_, _)
InsertSorted(sorted, x) ==
    IF sorted = <<>> THEN <<x>>
    ELSE IF Compare(sorted[Len(sorted)], x) <= 0 THEN Append(sorted, x)
    ELSE Append(InsertSorted(SubSeq(sorted, 1, Len(sorted) - 1), x), sorted[Len(sorted)])

RECURSIVE StableSort(_)
StableSort(list) ==
    IF list = <<>> THEN <<>>
    ELSE InsertSorted(StableSort(SubSeq(list, 1, Len(list) - 1)), list[Len(list)])

Reorderings(list) ==
    { [i \in 1..Len(list) |-> list[f[i]]] :
        f \in {g \in [1..Len(list) -> 1..Len(list)] :
                 \A i, j \in 1..Len(list) : g[i] = g[j] => i = j} }

\* What filtered.sort(...) may leave: the stable sort when the comparator is
\* consistent, an implementation-defined order of the elements otherwise.
SortOutcomes(list) ==
    IF ConsistentComparator(list) THEN {StableSort(list)} ELSE Reorderings(list)

\* The bound of a slice: a negative index counts from the end.
RelativeIndex(n, len) ==
    IF n < 0 THEN (IF len + n < 0 THEN 0 ELSE len + n)
    ELSE (IF n > len THEN len ELSE n)

\* PageStart with pages counted from zero.
PageStartZeroBased(page, limit) == page * limit

\* const start = (page - 1) * limit
PageStart(page, limit) == (page - 1) * limit

\* The end of the page taken one record too far.
PageEndInclusive(start, limit) == start + limit + 1

\* filtered.slice(start, start + limit): the end of the page
PageEnd(start, limit) == start + limit

\* list.slice(start, end)
Slice(list, start, end) ==
    SubSeq(list, RelativeIndex(start, Len(list)) + 1, RelativeIndex(end, Len(list)))

---------------------------------------------------------------------------
(* The requests the model sends. *)

MinPage == 0 - 1
DefaultPage == 1
DefaultLimit == 10

NoNumber == [given |-> FALSE, n |-> 0]
Num(n) == [given |-> TRUE, n |-> n]

Pages == {NoNumber} \cup {Num(n) : n \in MinPage..MaxPage}
Limits == {NoNumber} \cup {Num(n) : n \in 1..MaxLimit}

Params ==
    [date : {Undefined, Str(<<"0","1">>)},
     page : Pages,
     limit : Limits,
     method : {Undefined, Str(<<"g","e","t">>)},
     sourceIp : {Undefined, Str(<<"i","p">>)},
     search : {Undefined, Str(<<"B">>)},
     conversationId : {Undefined, Str(<<"C","V">>)}]

\* The filters sent with the default page and limit.
ScanParams ==
    [date : {Undefined},
     page : {NoNumber},
     limit : {NoNumber},
     method : {Undefined, Str(<<"g","e","t">>)},
     sourceIp : {Undefined, Str(<<"i","p">>)},
     search : {Undefined, Str(<<"B","C">>), Str(<<"Q">>)},
     conversationId : {Undefined, Str(<<"C","V">>), Str(<<"0">>)}]

\* The ids asked for by lookup and delete.
Ids == {<<"a","b">>, <<"a","b","c">>, <<"z","z">>, <<"0","1">>}

\* The reads that may fail during one scan: some of the blobs listed.
FailingSets(prefix) ==
    LET blobs == listBlobs(store, prefix)
    IN  {f \in SUBSET {blobs[i] : i \in 1..Len(blobs)} : Cardinality(f) <= MaxReadFailures}

\* date ? `${date}/` : undefined
PrefixOf(date) == IF Truthy(date) THEN Str(date.s \o <<"/">>) ELSE Undefined

Idle == [op |-> "none"]

---------------------------------------------------------------------------
(* The operations, each with the route in front of it. *)

\* getContainerClient that makes the client without looking at the
\* connection string.
getContainerClientUnchecked == FALSE

\* getContainerClient() throws: no client was made yet and the connection
\* string is empty.
getContainerClientThrows == containerClient = "null" /\ connectionString = <<>>

\* A listing whose failure is caught and read as a listing that went well.
listBlobsSwallowsError(listThrows) == FALSE

\* The for await over container.listBlobsFlat() throws: the store failed
\* the listing call.
listBlobsThrows(listThrows) == listThrows

\* The catch block of a route: status 500 and an error body.  storeCalls
\* counts the calls the handler made to the store.
Failed(op, error, listThrows, storeCalls) ==
    [op |-> op, status |-> 500, error |-> error, listThrows |-> listThrows,
     storeCalls |-> storeCalls]

\* GET /api/webhooks -> getWebhooks(params)
GetWebhooks(p, failing, listThrows) ==
    LET page == IF p.page.given THEN p.page.n ELSE DefaultPage
        limit == IF p.limit.given THEN p.limit.n ELSE DefaultLimit
        blobs == listBlobs(store, PrefixOf(p.date))
        webhooks == ReadAll(store, blobs, failing)
        filtered == ApplyFilters(webhooks, p)
        start == PageStart(page, limit)
    IN  /\ UNCHANGED <<store, environment>>
        /\ IF getContainerClientThrows
           THEN /\ res' = Failed("getWebhooks", "configuration", listThrows, 0)
                /\ UNCHANGED containerClient
           ELSE /\ containerClient' = "client"
                /\ IF listBlobsThrows(listThrows)
                   THEN res' = Failed("getWebhooks", "listing", listThrows, 1)
                   ELSE IF filtered.threw
                   THEN res' = [op |-> "getWebhooks", params |-> p, failing |-> failing,
                                listThrows |-> listThrows, storeCalls |-> 1 + Len(blobs),
                                blobs |-> blobs, webhooks |-> webhooks, status |-> 500,
                                sorted |-> <<>>,
                                data |-> <<>>, total |-> 0, page |-> page, limit |-> limit]
                   ELSE \E sorted \in SortOutcomes(filtered.list) :
                          res' = [op |-> "getWebhooks", params |-> p, failing |-> failing,
                                  listThrows |-> listThrows, storeCalls |-> 1 + Len(blobs),
                                  blobs |-> blobs, webhooks |-> webhooks, status |-> 200,
                                  sorted |-> sorted,
                                  data |-> Slice(sorted, start, PageEnd(start, limit)),
                                  total |-> Len(sorted), page |-> page, limit |-> limit]

\* The blobs getWebhookById tries, in order: the name includes the id.
NameMatches(blobs, id) == SelectSeq(blobs, LAMBDA k : Includes(k, id))

\* GET /api/webhooks/:id -> getWebhookById(id)
GetWebhookById(id, failing, listThrows) ==
    LET blobs == listBlobs(store, Undefined)
        matches == NameMatches(blobs, id)
        read == SelectSeq(matches, LAMBDA k : ~LoadThrows(store, k, failing))
        tried == {i \in 1..Len(matches) :
                    \A j \in 1..(i - 1) : LoadThrows(store, matches[j], failing)}
    IN  /\ UNCHANGED <<store, environment>>
        /\ IF getContainerClientThrows
           THEN /\ res' = Failed("getWebhookById", "configuration", listThrows, 0)
                /\ UNCHANGED containerClient
           ELSE /\ containerClient' = "client"
                /\ res' = IF listBlobsThrows(listThrows)
                          THEN Failed("getWebhookById", "listing", listThrows, 1)
                          ELSE IF read = <<>>
                          THEN [op |-> "getWebhookById", id |-> id, failing |-> failing,
                                listThrows |-> listThrows, storeCalls |-> 1 + Cardinality(tried),
                                status |-> 404,
                                key |-> <<>>, webhook |-> transformWebhook(<<>>)]
                          ELSE [op |-> "getWebhookById", id |-> id, failing |-> failing,
                                listThrows |-> listThrows, storeCalls |-> 1 + Cardinality(tried),
                                status |-> 200,
                                key |-> read[1], webhook |-> transformWebhook(store[read[1]].fields)]

\* A loop that deletes every blob tried instead of returning after the first.
AfterDeleteOfEvery(st, matches) ==
    [k \in DOMAIN st \ {matches[i] : i \in 1..Len(matches)} |-> st[k]]

\* The container after blobClient.delete() of the first blob tried.
AfterDelete(st, matches) == [k \in DOMAIN st \ {matches[1]} |-> st[k]]

\* DELETE /api/webhooks/:id -> deleteWebhook(id): the first blob whose name
\* includes the id is deleted; a delete that throws ends the call with false.
DeleteWebhook(id, deleteThrows, listThrows) ==
    LET blobs == listBlobs(store, Undefined)
        matches == NameMatches(blobs, id)
    IN  /\ UNCHANGED environment
        /\ IF getContainerClientThrows
           THEN /\ res' = Failed("deleteWebhook", "configuration", listThrows, 0)
                /\ UNCHANGED <<store, containerClient>>
           ELSE /\ containerClient' = "client"
                /\ IF listBlobsThrows(listThrows)
                   THEN /\ res' = Failed("deleteWebhook", "listing", listThrows, 1)
                        /\ UNCHANGED store
                   ELSE IF matches # <<>> /\ ~deleteThrows
                   THEN /\ store' = AfterDelete(store, matches)
                        /\ res' = [op |-> "deleteWebhook", id |-> id, status |-> 204,
                                   listThrows |-> listThrows, storeCalls |-> 2,
                                   key |-> matches[1], before |-> store,
                                   deleteThrows |-> deleteThrows]
                   ELSE /\ res' = [op |-> "deleteWebhook", id |-> id, status |-> 404,
                                   listThrows |-> listThrows,
                                   storeCalls |-> IF matches # <<>> THEN 2 ELSE 1,
                                   key |-> <<>>, before |-> store,
                                   deleteThrows |-> deleteThrows]
                        /\ UNCHANGED store

\* deleteWebhook step by step, for calls that run side by side: each await
\* is a point where another call may run.  A call is at "start", then has
\* "listed" the blobs, then is "done" with the status its route sends.
Arrived(id, st) == [pc |-> "start", id |-> id, before |-> st, blobs |-> <<>>, status |-> 0]

\* const container = getContainerClient(); const blobs = await listBlobs()
DeleteListed(c) ==
    /\ calls[c].pc = "start"
    /\ IF getContainerClientThrows
       THEN /\ calls' = [calls EXCEPT ![c].pc = "done", ![c].status = 500]
            /\ UNCHANGED containerClient
       ELSE /\ calls' = [calls EXCEPT ![c].pc = "listed",
                                      ![c].blobs = listBlobs(store, Undefined)]
            /\ containerClient' = "client"
    /\ UNCHANGED <<store, res, environment, pager, dashboard, listPage>>

\* The loop over the blobs listed: the first whose name includes the id is
\* deleted and the call returns true; blobClient.delete() throws when the
\* blob is no longer there, and the call returns false.
DeleteTried(c) ==
    LET matches == NameMatches(calls[c].blobs, calls[c].id)
    IN  /\ calls[c].pc = "listed"
        /\ IF matches # <<>> /\ matches[1] \in DOMAIN store
           THEN /\ store' = AfterDelete(store, matches)
                /\ calls' = [calls EXCEPT ![c].pc = "done", ![c].status = 204]
           ELSE /\ calls' = [calls EXCEPT ![c].pc = "done", ![c].status = 404]
                /\ UNCHANGED store
        /\ UNCHANGED <<res, environment, containerClient, pager, dashboard, listPage>>

\* s.split(sep)[1] in place of s.split(sep)[0]: the text after the first
\* separator, up to the next.
FirstPartSecond(s, sep) ==
    IF \E i \in 1..Len(s) : s[i] = sep
    THEN LET first == CHOOSE i \in 1..Len(s) : s[i] = sep /\ \A j \in 1..(i - 1) : s[j] # sep
             rest == SubSeq(s, first + 1, Len(s))
         IN  IF \E i \in 1..Len(rest) : rest[i] = sep
             THEN SubSeq(rest, 1, (CHOOSE i \in 1..Len(rest) :
                                      rest[i] = sep /\ \A j \in 1..(i - 1) : rest[j] # sep) - 1)
             ELSE rest
    ELSE s

\* s.split(sep)[0]
FirstPart(s, sep) ==
    IF \E i \in 1..Len(s) : s[i] = sep
    THEN SubSeq(s, 1, (CHOOSE i \in 1..Len(s) : s[i] = sep /\ \A j \in 1..(i - 1) : s[j] # sep) - 1)
    ELSE s

\* Array.from(dates).sort() without the reverse().
SortedAscending(ss) == SortedKeys(ss)

RECURSIVE SortedDescending(_)
SortedDescending(ss) ==
    IF ss = {} THEN <<>>
    ELSE LET m == CHOOSE x \in ss : \A y \in ss \ {x} : StrLess(y, x)
         IN  <<m>> \o SortedDescending(ss \ {m})

\* GET /api/webhooks/dates -> getAvailableDates()
GetAvailableDates(listThrows) ==
    LET names == listBlobsFlat(store, Undefined)
        dates == {FirstPart(names[i], "/") :
                    i \in {j \in 1..Len(names) : \E c \in 1..Len(names[j]) : names[j][c] = "/"}}
    IN  /\ UNCHANGED <<store, environment>>
        /\ IF getContainerClientThrows
           THEN /\ res' = Failed("getAvailableDates", "configuration", listThrows, 0)
                /\ UNCHANGED containerClient
           ELSE /\ containerClient' = "client"
                /\ res' = IF listBlobsThrows(listThrows)
                          THEN Failed("getAvailableDates", "listing", listThrows, 1)
                          ELSE [op |-> "getAvailableDates", status |-> 200,
                                listThrows |-> listThrows, storeCalls |-> 1,
                                dates |-> SortedDescending(dates)]

\* The records of a stats scan that reach the method count, and those that
\* also reach the date count: each line of the try block may throw.
CountedByMethod(st, blobs, failing) ==
    SelectSeq(ReadAll(st, blobs, failing), LAMBDA w : IsString(w.method))

CountedByDate(st, blobs, failing) ==
    SelectSeq(CountedByMethod(st, blobs, failing), LAMBDA w : IsString(w.receivedAt))

\* counts[key] = (counts[key] || 0) + 1, over the keys in turn
Tally(keys) ==
    [key \in {keys[i] : i \in 1..Len(keys)} |->
        Cardinality({i \in 1..Len(keys) : keys[i] = key})]

\* GET /api/webhooks/stats -> getWebhookStats()
GetWebhookStats(failing, listThrows) ==
    LET blobs == listBlobs(store, Undefined)
        byMethod == CountedByMethod(store, blobs, failing)
        byDate == CountedByDate(store, blobs, failing)
    IN  /\ UNCHANGED <<store, environment>>
        /\ IF getContainerClientThrows
           THEN /\ res' = Failed("getWebhookStats", "configuration", listThrows, 0)
                /\ UNCHANGED containerClient
           ELSE /\ containerClient' = "client"
                /\ res' = IF listBlobsThrows(listThrows)
                          THEN Failed("getWebhookStats", "listing", listThrows, 1)
                          ELSE [op |-> "getWebhookStats", status |-> 200, failing |-> failing,
                                listThrows |-> listThrows, storeCalls |-> 1 + Len(blobs),
                                blobs |-> blobs,
                                total |-> Len(blobs),
                                byMethod |-> Tally([i \in 1..Len(byMethod) |-> ToUpperCase(byMethod[i].method.s)]),
                                byDate |-> Tally([i \in 1..Len(byDate) |-> FirstPart(byDate[i].receivedAt.s, "T")])]

\* The response is sent and the handler returns.
Respond ==
    /\ res.op # "none"
    /\ res' = Idle
    /\ UNCHANGED <<store, environment, containerClient>>

---------------------------------------------------------------------------
(* WebhookListPage: the state of the page and its handlers.  handler is    *)
(* the handler that ran last.                                              *)

DEFAULT_PAGE_SIZE == 10
PAGE_SIZE_OPTIONS == <<10, 25, 50, 100>>

\* The useState initial values.
ListPageMounted ==
    [state |-> "mounted", handler |-> "none",
     page |-> 1, pageSize |-> DEFAULT_PAGE_SIZE,
     search |-> Str(<<>>), conversationId |-> Str(<<>>),
     date |-> Undefined, method |-> Undefined]

handlePageChange(newPage) ==
    /\ listPage.state = "mounted"
    /\ listPage' = [listPage EXCEPT !.handler = "handlePageChange", !.page = newPage]

\* handlePageSizeChange without its setPage(1).
handlePageSizeChangeKeepsPage(newSize) ==
    /\ listPage.state = "mounted"
    /\ listPage' = [listPage EXCEPT !.handler = "handlePageSizeChange", !.pageSize = newSize]

handlePageSizeChange(newSize) ==
    /\ listPage.state = "mounted"
    /\ listPage' = [listPage EXCEPT !.handler = "handlePageSizeChange",
                                    !.pageSize = newSize, !.page = 1]

handleSearchChange(value) ==
    /\ listPage.state = "mounted"
    /\ listPage' = [listPage EXCEPT !.handler = "handleSearchChange",
                                    !.search = value, !.page = 1]

handleConversationIdChange(value) ==
    /\ listPage.state = "mounted"
    /\ listPage' = [listPage EXCEPT !.handler = "handleConversationIdChange",
                                    !.conversationId = value, !.page = 1]

handleDateChange(value) ==
    /\ listPage.state = "mounted"
    /\ listPage' = [listPage EXCEPT !.handler = "handleDateChange",
                                    !.date = value, !.page = 1]

handleMethodChange(value) ==
    /\ listPage.state = "mounted"
    /\ listPage' = [listPage EXCEPT !.handler = "handleMethodChange",
                                    !.method = value, !.page = 1]

\* What the user types and picks on the list page.
TextInputs == {Str(<<>>), Str(<<"a">>)}
DateInputs == {Undefined, Str(<<"0","1">>)}
MethodInputs == {Undefined, Str(<<"G","E","T">>)}

---------------------------------------------------------------------------
(* DashboardPage: the webhooks fetched, the client-side filters, the       *)
(* selection, the effect that selects the first webhook and the keyboard.  *)
(* A webhook of the dashboard is its id, 1 to MaxWebhooks; its body and    *)
(* its age in days are fixed.  event is the event handled last, effects    *)
(* says that effects are still to run before the next event, and cleared   *)
(* that the user pressed Escape and has selected no webhook since.         *)
(* showFilters, showShortcuts, darkMode and autoRefresh are left out: no   *)
(* handler reads them to set the selection or the list.                    *)

WebhookIds == 1..MaxWebhooks

\* selectedWebhook is null: no webhook.
NoWebhook == 0

\* rawBody is empty for the webhooks with an even id.
HasBody(w) == w % 2 = 1

\* Days since receivedAt: 0, 10, 40 for the webhooks 1, 2, 3.
AgeOf(w) == IF w = 1 THEN 0 ELSE IF w = 2 THEN 10 ELSE 40

\* isAfter(date, subDays(new Date(), days)) || isToday(date)
Within(w, days) == AgeOf(w) < days \/ AgeOf(w) = 0

\* The data a query may bring: the webhooks in the order of the server,
\* some of them; <<>> also stands for data undefined while loading.
Datasets ==
    {d \in UNION {[1..n -> WebhookIds] : n \in 0..MaxWebhooks} :
        \A i, j \in 1..Len(d) : i < j => d[i] < d[j]}

DatePresets == {"today", "yesterday", "last7days", "last30days", "all"}

\* effectiveDateFilter: the date sent to the server.
effectiveDateFilter(datePreset) ==
    IF datePreset \in {"today", "yesterday"} THEN datePreset ELSE "undefined"

\* filteredWebhooks (useMemo): the client-side filters over data.
filteredWebhooks(d) ==
    LET byDate == IF d.datePreset = "last7days"
                  THEN SelectSeq(d.data, LAMBDA w : Within(w, 7))
                  ELSE IF d.datePreset = "last30days"
                  THEN SelectSeq(d.data, LAMBDA w : Within(w, 30))
                  ELSE d.data
    IN  IF d.hasBodyFilter = "with" THEN SelectSeq(byDate, LAMBDA w : HasBody(w))
        ELSE IF d.hasBodyFilter = "without" THEN SelectSeq(byDate, LAMBDA w : ~HasBody(w))
        ELSE byDate

\* filteredWebhooks.findIndex(w => w.id === selectedWebhook?.id), from 0;
\* -1 when there is none.
findIndex(list, selected) ==
    IF \E i \in 1..Len(list) : list[i] = selected
    THEN (CHOOSE i \in 1..Len(list) : list[i] = selected) - 1
    ELSE 0 - 1

\* The useState initial values, before the first data.
DashboardMounted ==
    [state |-> "mounted", event |-> "mount", effects |-> TRUE, cleared |-> FALSE,
     data |-> <<>>, datePreset |-> "today", hasBodyFilter |-> "all",
     selectedWebhook |-> NoWebhook]

\* The dashboard after an event: effects run again when a dependency of
\* the auto-select effect (filteredWebhooks, selectedWebhook) changed.
AfterEvent(d) ==
    [d EXCEPT !.effects = \/ d.data # dashboard.data
                          \/ d.datePreset # dashboard.datePreset
                          \/ d.hasBodyFilter # dashboard.hasBodyFilter
                          \/ d.selectedWebhook # dashboard.selectedWebhook]

\* Before the next event is handled, the effects of the last render ran.
Settled == dashboard.state = "mounted" /\ ~dashboard.effects

\* useEffect: if (filteredWebhooks.length > 0 && !selectedWebhook)
\*   setSelectedWebhook(filteredWebhooks[0])
AutoSelect(d) ==
    IF Len(filteredWebhooks(d)) > 0 /\ d.selectedWebhook = NoWebhook
    THEN [d EXCEPT !.selectedWebhook = filteredWebhooks(d)[1], !.effects = TRUE]
    ELSE [d EXCEPT !.effects = FALSE]

RunEffects ==
    /\ dashboard.state = "mounted"
    /\ dashboard.effects
    /\ dashboard' = AutoSelect(dashboard)

\* useWebhooks brings data: the first load, a refetch, the data of a new
\* query key.
DataLoaded(d) ==
    /\ Settled
    /\ dashboard' = AfterEvent([dashboard EXCEPT !.event = "data", !.data = d])

\* setDatePreset(e.target.value): a preset that changes the date sent to
\* the server changes the query key, and data is what the cache holds for
\* the new key (nothing, while loading).
DatePresetChanged(value, cached) ==
    /\ Settled
    /\ dashboard' = AfterEvent([dashboard EXCEPT
            !.event = "setDatePreset",
            !.datePreset = value,
            !.data = IF effectiveDateFilter(value) = effectiveDateFilter(dashboard.datePreset)
                     THEN @ ELSE cached])

\* onClick={() => setHasBodyFilter(option)}
HasBodyFilterChanged(option) ==
    /\ Settled
    /\ dashboard' = AfterEvent([dashboard EXCEPT !.event = "setHasBodyFilter",
                                                 !.hasBodyFilter = option])

\* clearAllFilters: the date preset becomes 'all'.
clearAllFilters(cached) ==
    /\ Settled
    /\ dashboard' = AfterEvent([dashboard EXCEPT
            !.event = "clearAllFilters",
            !.datePreset = "all",
            !.hasBodyFilter = "all",
            !.data = IF effectiveDateFilter("all") = effectiveDateFilter(dashboard.datePreset)
                     THEN @ ELSE cached])

\* onClick={() => setSelectedWebhook(webhook)} on an item of the list
WebhookClicked(w) ==
    /\ Settled
    /\ \E i \in 1..Len(filteredWebhooks(dashboard)) : filteredWebhooks(dashboard)[i] = w
    /\ dashboard' = AfterEvent([dashboard EXCEPT !.event = "click", !.cleared = FALSE,
                                                 !.selectedWebhook = w])

Keys_ArrowDown == {"ArrowDown", "j"}
Keys_ArrowUp == {"ArrowUp", "k"}
KeysPressed == Keys_ArrowDown \cup Keys_ArrowUp \cup {"r", "Escape"}

\* handleKeyDown(e): nothing when the target is an input.
handleKeyDown(key, inInput) ==
    LET list == filteredWebhooks(dashboard)
        currentIndex == findIndex(list, dashboard.selectedWebhook)
        handled == [dashboard EXCEPT !.event = key]
    IN  /\ Settled
        /\ dashboard' = AfterEvent(
              IF inInput THEN [dashboard EXCEPT !.event = "typing"]
              ELSE IF key \in Keys_ArrowDown /\ currentIndex < Len(list) - 1
              THEN [handled EXCEPT !.selectedWebhook = list[currentIndex + 2], !.cleared = FALSE]
              ELSE IF key \in Keys_ArrowUp /\ currentIndex > 0
              THEN [handled EXCEPT !.selectedWebhook = list[currentIndex], !.cleared = FALSE]
              ELSE IF key = "Escape"
              THEN [handled EXCEPT !.selectedWebhook = NoWebhook, !.cleared = TRUE]
              ELSE handled)

---------------------------------------------------------------------------
(* The specifications. *)

\* Every name a container of the model may hold.
AllKeys == DateKeys

\* The process was started with a connection string and has made no client.
Configured ==
    /\ connectionString = <<"c","s">>
    /\ containerClient = "null"

\* The store enumerates its names in lexicographic order, as Azure Blob
\* Storage does.
Lexicographic == listOrder = SortedKeys(AllKeys)

\* No client of the server is at work.
NoClients ==
    /\ calls = <<>>
    /\ pager = [state |-> "off"]
    /\ dashboard = [state |-> "off"]
    /\ listPage = [state |-> "off"]

Init ==
    /\ store \in Stores
    /\ res = Idle
    /\ Configured /\ Lexicographic /\ NoClients

\* One request at a time, each answered before the next.
Next ==
    \/ res.op = "none" /\ UNCHANGED clients
          /\ \E p \in Params : \E failing \in FailingSets(PrefixOf(p.date)) : GetWebhooks(p, failing, FALSE)
    \/ res.op = "none" /\ UNCHANGED clients
          /\ \E id \in Ids : \E failing \in FailingSets(Undefined) : GetWebhookById(id, failing, FALSE)
    \/ res.op = "none" /\ UNCHANGED clients
          /\ \E id \in Ids : \E deleteThrows \in BOOLEAN : DeleteWebhook(id, deleteThrows, FALSE)
    \/ res.op = "none" /\ UNCHANGED clients /\ GetAvailableDates(FALSE)
    \/ res.op = "none" /\ UNCHANGED clients
          /\ \E failing \in FailingSets(Undefined) : GetWebhookStats(failing, FALSE)
    \/ Respond /\ UNCHANGED clients

Spec == Init /\ [][Next]_vars

\* Lookups and deletes sent back to back, the last response kept.
NextSession ==
    \/ UNCHANGED clients
          /\ \E id \in Ids : \E failing \in FailingSets(Undefined) : GetWebhookById(id, failing, FALSE)
    \/ UNCHANGED clients
          /\ \E id \in Ids : \E deleteThrows \in BOOLEAN : DeleteWebhook(id, deleteThrows, FALSE)

SpecSession == Init /\ [][NextSession]_vars

\* Scans with filters and counts, over the containers ScanStores.
InitScan ==
    /\ store \in ScanStores
    /\ res = Idle
    /\ Configured /\ Lexicographic /\ NoClients

NextScan ==
    \/ res.op = "none" /\ UNCHANGED clients
          /\ \E p \in ScanParams : \E failing \in FailingSets(Undefined) : GetWebhooks(p, failing, FALSE)
    \/ res.op = "none" /\ UNCHANGED clients
          /\ \E failing \in FailingSets(Undefined) : GetWebhookStats(failing, FALSE)
    \/ Respond /\ UNCHANGED clients

SpecScan == InitScan /\ [][NextScan]_vars

\* The date listing, over the containers DateStores.
InitDates ==
    /\ store \in DateStores
    /\ res = Idle
    /\ Configured /\ Lexicographic /\ NoClients

NextDates ==
    \/ res.op = "none" /\ UNCHANGED clients /\ GetAvailableDates(FALSE)
    \/ Respond /\ UNCHANGED clients

SpecDates == InitDates /\ [][NextDates]_vars

\* The server started with or without a connection string, over a store
\* whose listing call may fail.
FaultStores == {st \in Stores : Cardinality(DOMAIN st) <= 2}

FaultParams == {p \in ScanParams : ~Truthy(p.search) /\ ~Truthy(p.conversationId)}

InitFaults ==
    /\ store \in FaultStores
    /\ res = Idle
    /\ connectionString \in {<<>>, <<"c","s">>}
    /\ containerClient = "null"
    /\ Lexicographic /\ NoClients

NextFaults ==
    \/ res.op = "none" /\ UNCHANGED clients
          /\ \E p \in FaultParams : \E failing \in FailingSets(Undefined) :
                \E listThrows \in BOOLEAN : GetWebhooks(p, failing, listThrows)
    \/ res.op = "none" /\ UNCHANGED clients
          /\ \E id \in Ids : \E failing \in FailingSets(Undefined) :
                \E listThrows \in BOOLEAN : GetWebhookById(id, failing, listThrows)
    \/ res.op = "none" /\ UNCHANGED clients
          /\ \E id \in Ids : \E deleteThrows, listThrows \in BOOLEAN :
                DeleteWebhook(id, deleteThrows, listThrows)
    \/ res.op = "none" /\ UNCHANGED clients
          /\ \E listThrows \in BOOLEAN : GetAvailableDates(listThrows)
    \/ res.op = "none" /\ UNCHANGED clients
          /\ \E failing \in FailingSets(Undefined) :
                \E listThrows \in BOOLEAN : GetWebhookStats(failing, listThrows)
    \/ Respond /\ UNCHANGED clients

SpecFaults == InitFaults /\ [][NextFaults]_vars

\* Queries over a store that enumerates its names in an order of its own.
ListingStores ==
    UNION { {st \in [ks -> {Parsed(FieldsA), Parsed(FieldsB), Parsed(FieldsC), BadJson}] :
                \A k \in ks : EndsWith(k, JsonExt) \/ st[k] = Parsed(FieldsC)} :
              ks \in {s \in SUBSET Keys : Cardinality(s) <= MaxBlobs} }

ListingParams ==
    {p \in Params : /\ ~Truthy(p.sourceIp) /\ ~Truthy(p.search) /\ ~Truthy(p.conversationId)
                    /\ p.page \in {NoNumber, Num(1), Num(2)}
                    /\ p.limit \in {NoNumber, Num(1)}}

InitListing ==
    /\ store \in ListingStores
    /\ res = Idle
    /\ Configured /\ NoClients
    /\ listOrder \in Reorderings(SortedKeys(Keys))

NextListing ==
    \/ res.op = "none" /\ UNCHANGED clients
          /\ \E p \in ListingParams : GetWebhooks(p, {}, FALSE)
    \/ Respond /\ UNCHANGED clients

SpecListing == InitListing /\ [][NextListing]_vars

\* A client that reads a result page after page: page 1 first, then on to
\* page ceil(total / limit), the store left alone meanwhile.
PagerParams ==
    {p \in Params : /\ ~Truthy(p.sourceIp) /\ ~Truthy(p.search) /\ ~Truthy(p.conversationId)
                    /\ p.page = Num(1)
                    /\ p.limit # NoNumber}

\* Math.ceil(total / limit)
CeilDiv(total, limit) == (total + limit - 1) \div limit

PagerStart(p) ==
    [state |-> "paging", params |-> p, next |-> 1, pages |-> <<>>, sorted |-> <<>>, total |-> 0]

\* The pager asks for its next page.  The engine that sorted the array for
\* the first page sorts the same array the same way for the later ones.
PagerRequest ==
    /\ pager.state = "paging"
    /\ res.op = "none"
    /\ GetWebhooks([pager.params EXCEPT !.page = Num(pager.next)], {}, FALSE)
    /\ (pager.next > 1 /\ res'.status = 200) => res'.sorted = pager.sorted
    /\ UNCHANGED clients

\* The pager takes the response: the page is kept, and the pager goes on to
\* the next page or stops after the last.
PagerCollect ==
    /\ pager.state = "paging"
    /\ res.op = "getWebhooks"
    /\ pager' = IF res.status # 200
                THEN [pager EXCEPT !.state = "failed"]
                ELSE [pager EXCEPT
                        !.pages = Append(@, res.data),
                        !.sorted = res.sorted,
                        !.total = res.total,
                        !.next = @ + 1,
                        !.state = IF pager.next >= CeilDiv(res.total, res.limit)
                                  THEN "done" ELSE "paging"]
    /\ Respond
    /\ UNCHANGED <<calls, dashboard, listPage>>

InitPaging ==
    /\ store \in Stores
    /\ res = Idle
    /\ Configured /\ Lexicographic
    /\ calls = <<>>
    /\ pager \in {PagerStart(p) : p \in PagerParams}
    /\ dashboard = [state |-> "off"]
    /\ listPage = [state |-> "off"]

NextPaging ==
    \/ PagerRequest
    \/ PagerCollect

SpecPaging == InitPaging /\ [][NextPaging]_vars

\* Two delete requests that arrived together and run side by side.
Callers == {1, 2}

InitRace ==
    /\ store \in FaultStores
    /\ res = Idle
    /\ Configured /\ Lexicographic
    /\ calls \in {[c \in Callers |-> Arrived(ids[c], store)] : ids \in [Callers -> Ids]}
    /\ pager = [state |-> "off"]
    /\ dashboard = [state |-> "off"]
    /\ listPage = [state |-> "off"]

NextRace ==
    \/ \E c \in Callers : DeleteListed(c)
    \/ \E c \in Callers : DeleteTried(c)

SpecRace == InitRace /\ [][NextRace]_vars

\* The list page in the hands of a user; the server is left out.
EmptyStore == [k \in {} |-> BadJson]

InitListPage ==
    /\ store = EmptyStore
    /\ res = Idle
    /\ Configured /\ Lexicographic
    /\ calls = <<>>
    /\ pager = [state |-> "off"]
    /\ dashboard = [state |-> "off"]
    /\ listPage = ListPageMounted

NextListPage ==
    \/ \E newPage \in 1..MaxListPage : handlePageChange(newPage) /\ UNCHANGED <<store, res, environment, containerClient, calls, pager, dashboard>>
    \/ \E i \in 1..Len(PAGE_SIZE_OPTIONS) : handlePageSizeChange(PAGE_SIZE_OPTIONS[i]) /\ UNCHANGED <<store, res, environment, containerClient, calls, pager, dashboard>>
    \/ \E value \in TextInputs : handleSearchChange(value) /\ UNCHANGED <<store, res, environment, containerClient, calls, pager, dashboard>>
    \/ \E value \in TextInputs : handleConversationIdChange(value) /\ UNCHANGED <<store, res, environment, containerClient, calls, pager, dashboard>>
    \/ \E value \in DateInputs : handleDateChange(value) /\ UNCHANGED <<store, res, environment, containerClient, calls, pager, dashboard>>
    \/ \E value \in MethodInputs : handleMethodChange(value) /\ UNCHANGED <<store, res, environment, containerClient, calls, pager, dashboard>>

SpecListPage == InitListPage /\ [][NextListPage]_vars

\* The dashboard in the hands of a user, the data coming as it may.
InitDashboard ==
    /\ store = EmptyStore
    /\ res = Idle
    /\ Configured /\ Lexicographic
    /\ calls = <<>>
    /\ pager = [state |-> "off"]
    /\ dashboard = DashboardMounted
    /\ listPage = [state |-> "off"]

NextDashboard ==
    \/ RunEffects /\ UNCHANGED <<store, res, environment, containerClient, calls, pager, listPage>>
    \/ \E d \in Datasets : DataLoaded(d) /\ UNCHANGED <<store, res, environment, containerClient, calls, pager, listPage>>
    \/ \E value \in DatePresets : \E cached \in Datasets : DatePresetChanged(value, cached) /\ UNCHANGED <<store, res, environment, containerClient, calls, pager, listPage>>
    \/ \E option \in {"all", "with", "without"} : HasBodyFilterChanged(option) /\ UNCHANGED <<store, res, environment, containerClient, calls, pager, listPage>>
    \/ \E cached \in Datasets : clearAllFilters(cached) /\ UNCHANGED <<store, res, environment, containerClient, calls, pager, listPage>>
    \/ \E w \in WebhookIds : WebhookClicked(w) /\ UNCHANGED <<store, res, environment, containerClient, calls, pager, listPage>>
    \/ \E key \in KeysPressed : \E inInput \in BOOLEAN : handleKeyDown(key, inInput) /\ UNCHANGED <<store, res, environment, containerClient, calls, pager, listPage>>

SpecDashboard == InitDashboard /\ [][NextDashboard]_vars

---------------------------------------------------------------------------
(* What the specification says of a stored blob, read off the store and    *)
(* not off the loader: the record under either casing of the field names,  *)
(* and the filters as predicates of that record.                           *)

RequiredNames == {"Id", "ReceivedAt", "Method", "Path"}

FieldOf(fields, name) ==
    IF name \in DOMAIN fields THEN fields[name]
    ELSE IF CamelOf(name) \in DOMAIN fields THEN fields[CamelOf(name)]
    ELSE Undefined

\* Valid JSON with every required field, in either casing.
WellFormed(c) ==
    c.parse = "object" /\ \A n \in RequiredNames : IsString(FieldOf(c.fields, n))

\* Valid JSON that lacks a required field in both casings.
LacksRequired(c) ==
    c.parse = "object" /\ \E n \in RequiredNames : ~IsString(FieldOf(c.fields, n))

\* Written with the capitalized names only.
IsPascal(c) ==
    c.parse = "object" /\ \A n \in DOMAIN c.fields : \E i \in 1..Len(PascalNames) : PascalNames[i] = n

Canonical(c) ==
    [id |-> FieldOf(c.fields, "Id"),
     receivedAt |-> FieldOf(c.fields, "ReceivedAt"),
     method |-> FieldOf(c.fields, "Method"),
     path |-> FieldOf(c.fields, "Path"),
     headers |-> OrElse(FieldOf(c.fields, "Headers"), Obj(<<>>)),
     queryParameters |-> OrElse(FieldOf(c.fields, "QueryParameters"), Obj(<<>>)),
     rawBody |-> OrElse(FieldOf(c.fields, "RawBody"), Str(<<>>)),
     contentType |-> OrElse(FieldOf(c.fields, "ContentType"), Str(<<>>)),
     sourceIp |-> OrElse(FieldOf(c.fields, "SourceIp"), Str(<<>>))]

InScope(k, date) ==
    EndsWith(k, JsonExt) /\ (Truthy(date) => StartsWith(k, date.s \o <<"/">>))

SatisfiesSearch(w, term) ==
    \/ Includes(ToLowerCase(w.id.s), term)
    \/ Includes(ToLowerCase(w.path.s), term)
    \/ Includes(ToLowerCase(w.rawBody.s), term)
    \/ Includes(ToLowerCase(w.contentType.s), term)
    \/ \E i \in 1..Len(w.headers.m) : Includes(ToLowerCase(w.headers.m[i][2]), term)
    \/ \E i \in 1..Len(w.queryParameters.m) : Includes(ToLowerCase(w.queryParameters.m[i][2]), term)

ConversationValueText(s) ==
    IF IsConvJson(s) THEN SubSeq(s, Len(ConvPrefix) + 1, Len(s) - Len(ConvSuffix))
    ELSE SubSeq(s, Len(ConvNumPrefix) + 1, Len(s) - Len(ConvNumSuffix))

\* The body is JSON with a value at conversation.id, and the value contains
\* the term.
SatisfiesConversation(w, term) ==
    /\ IsConvJson(w.rawBody.s) \/ IsConvNumJson(w.rawBody.s)
    /\ Includes(ToLowerCase(ConversationValueText(w.rawBody.s)), term)

\* The conjunction of the supplied filters.
Satisfies(w, p) ==
    /\ Truthy(p.method) => ToUpperCase(w.method.s) = ToUpperCase(p.method.s)
    /\ Truthy(p.sourceIp) => w.sourceIp = p.sourceIp
    /\ Truthy(p.search) => SatisfiesSearch(w, ToLowerCase(p.search.s))
    /\ Truthy(p.conversationId) => SatisfiesConversation(w, ToLowerCase(p.conversationId.s))

\* The blobs of a scan that were read and parsed, in the order listed.
ReadAndParsed(blobs, failing) ==
    SelectSeq(blobs, LAMBDA k : k \notin failing /\ store[k].parse = "object")

NoFilter(p) ==
    ~Truthy(p.method) /\ ~Truthy(p.sourceIp) /\ ~Truthy(p.search) /\ ~Truthy(p.conversationId)

IsQuery == res.op = "getWebhooks"

\* The two lists hold the same records, each as often.
SameRecords(a, b) ==
    \A x \in {a[i] : i \in 1..Len(a)} \cup {b[i] : i \in 1..Len(b)} :
        Cardinality({i \in 1..Len(a) : a[i] = x}) = Cardinality({i \in 1..Len(b) : b[i] = x})

\* The four filters applied in a given order.
FilterNames == <<"method", "sourceIp", "search", "conversationId">>

FilterOrders == Reorderings(FilterNames)

Stage(name, list, p) ==
    CASE name = "method" -> MethodStage(list, p.method)
      [] name = "sourceIp" -> SourceIpStage(list, p.sourceIp)
      [] name = "search" -> SearchStage(list, p.search)
      [] name = "conversationId" -> ConversationStage(list, p.conversationId)

RECURSIVE ApplyInOrder(_, _, _)
ApplyInOrder(list, p, order) ==
    IF order = <<>> THEN Kept(list)
    ELSE LET r == Stage(Head(order), list, p)
         IN  IF r.threw THEN Threw ELSE ApplyInOrder(r.list, p, Tail(order))

\* d is the date-prefix of the key k: the text before its first "/".
IsDatePrefixOf(d, k) ==
    /\ StartsWith(k, d \o <<"/">>)
    /\ \A i \in 1..Len(d) : d[i] # "/"

\* The date component of a timestamp: its first characters (two in the
\* model's DD "T" H, ten in yyyy-MM-ddTHH:mm:ss).
DateComponent(s) == IF Len(s) <= Len(<<"D","D">>) THEN s ELSE SubSeq(s, 1, Len(<<"D","D">>))

\* How often each value of the function f is taken.
CountBy(f) ==
    [v \in {f[k] : k \in DOMAIN f} |-> Cardinality({k \in DOMAIN f : f[k] = v})]

\* The sum of the counts of a mapping.
RECURSIVE SumOf(_)
SumOf(counts) ==
    IF DOMAIN counts = {} THEN 0
    ELSE LET key == CHOOSE x \in DOMAIN counts : TRUE
         IN  counts[key] + SumOf([x \in DOMAIN counts \ {key} |-> counts[x]])

\* The lists of a list, one after the other.
RECURSIVE Concat(_)
Concat(lists) ==
    IF lists = <<>> THEN <<>> ELSE Head(lists) \o Concat(Tail(lists))

\* The stored blobs whose record has the id.
HasId(st, id) ==
    {k \in DOMAIN st : /\ EndsWith(k, JsonExt)
                       /\ st[k].parse = "object"
                       /\ FieldOf(st[k].fields, "Id") = Str(id)}

\* The filters and the page size of the list page.
ListPageFilters(lp) == <<lp.search, lp.conversationId, lp.date, lp.method, lp.pageSize>>

\* The whole result is on the page returned.
WholeResult == res.status = 200 /\ res.page = 1 /\ res.total <= res.limit

---------------------------------------------------------------------------
(* The claims. *)

\* C1: getWebhooks returns total equal to the number of successfully loaded
\* records in scope that satisfy all supplied filters, whatever page and
\* limit are.
C1_TotalIsFilteredCount ==
    IsQuery =>
        /\ res.status = 200
        /\ res.total =
             Cardinality({k \in DOMAIN store :
                 /\ InScope(k, res.params.date)
                 /\ k \notin res.failing
                 /\ WellFormed(store[k])
                 /\ Satisfies(Canonical(store[k]), res.params)})

\* C2: findById returns a record only if the record's own id equals the id
\* asked for, and NotFound only if no loadable stored record has that id.
C2_FindByContentId ==
    res.op = "getWebhookById" =>
        /\ res.status = 200 => res.webhook.id = Str(res.id)
        /\ res.status = 404 =>
             \A k \in DOMAIN store :
                 (EndsWith(k, JsonExt) /\ k \notin res.failing /\ store[k].parse = "object")
                    => FieldOf(store[k].fields, "Id") # Str(res.id)

\* C3: a findById that directly follows a successful deleteById of the same
\* id returns NotFound.
C3_DeleteThenNotFound ==
    [][(/\ res.op = "deleteWebhook"
        /\ res.status = 204
        /\ res'.op = "getWebhookById"
        /\ res'.id = res.id) => res'.status = 404]_vars

\* C4: deleteById succeeds exactly when a stored record has the id; on
\* success exactly one blob is gone, its record has the id, and the others
\* are unchanged; on NotFound the store is unchanged.
C4_DeleteByContentId ==
    (res.op = "deleteWebhook" /\ ~res.deleteThrows) =>
        /\ res.status = 204 <=>
             \E k \in DOMAIN res.before :
                 /\ EndsWith(k, JsonExt)
                 /\ res.before[k].parse = "object"
                 /\ FieldOf(res.before[k].fields, "Id") = Str(res.id)
        /\ res.status = 204 =>
             \E k \in DOMAIN res.before :
                 /\ res.before[k].parse = "object"
                 /\ FieldOf(res.before[k].fields, "Id") = Str(res.id)
                 /\ store = [j \in DOMAIN res.before \ {k} |-> res.before[j]]
        /\ res.status = 404 => store = res.before

\* C5: for limit L >= 1 and filtered total T, the pages (numbered from 1)
\* that hold a record are exactly 1..ceil(T/L); page ceil(T/L)+1 is empty;
\* and the total is the filtered count whatever the page.
C5_PagesWithRecords ==
    (IsQuery /\ res.status = 200 /\ res.limit >= 1 /\ res.page >= 0) =>
        LET T == res.total
            L == res.limit
            lastPage == (T + L - 1) \div L
        IN  /\ Len(res.data) >= 1 <=> (1 <= res.page /\ res.page <= lastPage)
            /\ res.page = lastPage + 1 => res.data = <<>>
            /\ Len(res.data) <= L
            /\ T = Len(ApplyFilters(res.webhooks, res.params).list)

C5_LastPagePlusOne ==
    /\ IsQuery
    /\ res.status = 200
    /\ res.total = 3
    /\ res.limit = 2
    /\ res.page = 3
    /\ res.data = <<>>

\* C6: in every getWebhooks result no record comes before a record with a
\* later receivedAt.
C6_NewestFirst ==
    (IsQuery /\ res.status = 200) =>
        \A i, j \in 1..Len(res.data) :
            (i < j /\ ~TimeIsNaN(res.data[i].receivedAt) /\ ~TimeIsNaN(res.data[j].receivedAt))
                => GetTime(res.data[i].receivedAt) >= GetTime(res.data[j].receivedAt)

\* C7: a blob that is not JSON, or whose read fails, is left out of the
\* getWebhooks result and does not make getWebhooks fail; every other
\* loadable record in scope is loaded and, with no filter, counted.
C7_UnreadableSkipped ==
    IsQuery =>
        LET good == ReadAndParsed(res.blobs, res.failing)
        IN  /\ Len(res.webhooks) = Len(good)
            /\ \A i \in 1..Len(good) :
                   res.webhooks[i].id = Get(store[good[i]].fields, "Id")
            /\ NoFilter(res.params) => (res.status = 200 /\ res.total = Len(good))
            /\ res.status = 500 =>
                   \E i \in 1..Len(good) : ~WellFormed(store[good[i]]) \/ ~IsPascal(store[good[i]])

C7_ScanWithUnreadableBlobs ==
    /\ IsQuery
    /\ res.status = 200
    /\ res.failing # {}
    /\ \E i \in 1..Len(res.blobs) : store[res.blobs[i]] = BadJson /\ res.blobs[i] \notin res.failing
    /\ Len(res.data) >= 1

\* C8: stats().total is the number of .json blobs that were read and parsed.
C8_StatsTotalCountsParsed ==
    res.op = "getWebhookStats" =>
        res.total =
            Cardinality({k \in DOMAIN store :
                EndsWith(k, JsonExt) /\ k \notin res.failing /\ store[k].parse = "object"})

\* C9: a blob written with lower-camel-case names loads to the same record
\* as the blob with the same values under capitalized names.
C9_CasingAgnostic ==
    IsQuery =>
        LET good == ReadAndParsed(res.blobs, res.failing)
        IN  \A i, j \in 1..Len(good) :
                store[good[j]].fields = Camelize(store[good[i]].fields)
                    => res.webhooks[i] = res.webhooks[j]

\* C10: a blob that parses but lacks a required field is excluded from the
\* getWebhooks result and does not make getWebhooks fail, whatever filters
\* are supplied.
C10_MissingRequiredSkipped ==
    (/\ IsQuery
     /\ \A i \in 1..Len(res.blobs) :
            LET c == store[res.blobs[i]]
            IN  c.parse = "error" \/ LacksRequired(c) \/ (WellFormed(c) /\ IsPascal(c)))
        => /\ res.status = 200
           /\ Len(res.webhooks) =
                Cardinality({i \in 1..Len(res.blobs) :
                    res.blobs[i] \notin res.failing /\ WellFormed(store[res.blobs[i]])})

\* C11: a blob of valid JSON that omits headers, queryParameters, rawBody,
\* contentType or sourceIp loads with an empty mapping or an empty string
\* for each omitted field, and no filter (search included) raises an error
\* on such a record: a request fails only when a loaded record has no id,
\* path or method.
C11_OptionalFieldsDefault ==
    IsQuery =>
        LET good == ReadAndParsed(res.blobs, res.failing)
        IN  /\ \A i \in 1..Len(good) :
                   LET f == store[good[i]].fields
                       w == res.webhooks[i]
                   IN  /\ "Headers" \notin DOMAIN f => w.headers = Obj(<<>>)
                       /\ "QueryParameters" \notin DOMAIN f => w.queryParameters = Obj(<<>>)
                       /\ "RawBody" \notin DOMAIN f => w.rawBody = Str(<<>>)
                       /\ "ContentType" \notin DOMAIN f => w.contentType = Str(<<>>)
                       /\ "SourceIp" \notin DOMAIN f => w.sourceIp = Str(<<>>)
            /\ res.status = 500 =>
                   \E i \in 1..Len(good) :
                       {"Id", "Path", "Method"} \ DOMAIN store[good[i]].fields # {}

C11_FiltersOverDefaults ==
    /\ IsQuery
    /\ res.status = 200
    /\ Truthy(res.params.search)
    /\ Truthy(res.params.sourceIp)
    /\ Truthy(res.params.conversationId)
    /\ Truthy(res.params.method)
    /\ \E i \in 1..Len(res.blobs) :
           /\ res.blobs[i] \notin res.failing
           /\ store[res.blobs[i]] = Parsed(FieldsC)

\* C12: with a search term supplied, a record passes the free-text filter
\* if and only if the lower-cased term is a substring of the lower-cased id,
\* path, rawBody, contentType, some headers value or some queryParameters
\* value; the keys of headers and queryParameters are not searched.
C12_SearchMatchesFields ==
    (IsQuery /\ Truthy(res.params.search)) =>
        LET term == ToLowerCase(res.params.search.s)
            others == [res.params EXCEPT !.search = Undefined]
        IN  /\ WholeResult =>
                   SameRecords(res.data,
                       SelectSeq(res.webhooks,
                           LAMBDA w : SatisfiesSearch(w, term) /\ Satisfies(w, others)))
            /\ res.status = 500 =>
                   \E i \in 1..Len(res.webhooks) :
                       \/ ~IsString(res.webhooks[i].id)
                       \/ ~IsString(res.webhooks[i].path)
                       \/ ~IsString(res.webhooks[i].method)

C12_MatchByHeaderValueOnly ==
    /\ IsQuery
    /\ res.status = 200
    /\ res.params.search = Str(<<"B","C">>)
    /\ NoFilter([res.params EXCEPT !.search = Undefined])
    /\ Len(res.webhooks) = 3
    /\ Len(res.data) = 1
    /\ res.data[1].id = Str(<<"a","b">>)
    /\ \E i \in 1..3 : res.webhooks[i].queryParameters = Obj(<< << <<"b","c">>, <<"y">> >> >>)

\* C13: with conversationId supplied, a record passes if and only if its
\* rawBody parses as JSON, has a value at conversation.id, and that value
\* lower-cased contains the lower-cased filter; a record whose rawBody is
\* empty, is not JSON or lacks the path is excluded and causes no error.
C13_ConversationMatchesValue ==
    (/\ IsQuery
     /\ Truthy(res.params.conversationId)
     /\ NoFilter([res.params EXCEPT !.conversationId = Undefined]))
        => /\ res.status = 200
           /\ res.total <= res.limit
           /\ SameRecords(res.data,
                  SelectSeq(res.webhooks,
                      LAMBDA w : SatisfiesConversation(w, ToLowerCase(res.params.conversationId.s))))

\* C14: with method supplied, getWebhooks returns exactly the loaded records
\* whose method equals it ignoring case (and, with sourceIp supplied, whose
\* sourceIp equals it exactly); every returned record satisfies every
\* supplied filter, and the result does not depend on the order in which
\* the filters are applied.
C14_MethodAndSourceIpExact ==
    (IsQuery /\ Truthy(res.params.method)) =>
        /\ res.status = 200
        /\ res.total <= res.limit
        /\ \A i \in 1..Len(res.data) : Satisfies(res.data[i], res.params)
        /\ (~Truthy(res.params.search) /\ ~Truthy(res.params.conversationId)) =>
               SameRecords(res.data,
                   SelectSeq(res.webhooks, LAMBDA w : Satisfies(w, res.params)))
        /\ \A order \in FilterOrders :
               LET r == ApplyInOrder(res.webhooks, res.params, order)
               IN  ~r.threw /\ SameRecords(res.data, r.list)

C16_DatesOfParsedBlobsOnly ==
    res.op = "getAvailableDates" =>
        /\ res.status = 200
        /\ \A i \in 1..Len(res.dates) :
               \E k \in DOMAIN store :
                   IsDatePrefixOf(res.dates[i], k) /\ store[k].parse = "object"

\* C16 as amended: a blob whose content is invalid JSON does not make
\* listDates fail, and listDates does not read contents: the date-prefix of
\* such a blob is returned like any other, also when it holds only such
\* blobs.
C16_DatesIgnoreContent ==
    res.op = "getAvailableDates" =>
        /\ res.status = 200
        /\ \A k \in DOMAIN store : \A n \in 0..Len(k) :
               (store[k].parse = "error" /\ IsDatePrefixOf(SubSeq(k, 1, n), k)) =>
                   \E i \in 1..Len(res.dates) : res.dates[i] = SubSeq(k, 1, n)

C16_FolderOfInvalidBlobsListed ==
    /\ res.op = "getAvailableDates"
    /\ DOMAIN store = {Key1, Key2, Key3}
    /\ store[Key1] = BadJson
    /\ store[Key2] = BadJson
    /\ store[Key3] = Parsed(FieldsA)
    /\ res.dates = << <<"0","2">>, <<"0","1">> >>

\* C17: the candidate set of getWebhooks is exactly the stored keys that end
\* in .json and, when date D is given, begin with D/; a query with date D
\* returns the records of the unscoped query restricted to those stored
\* under D/; and a key that does not end in .json contributes no record to
\* query, stats or lookup.
C17_CandidatesByExtensionAndDate ==
    /\ IsQuery =>
          LET candidates == {k \in DOMAIN store : InScope(k, res.params.date)}
              read == SelectSeq(SortedKeys(candidates),
                          LAMBDA k : k \notin res.failing /\ store[k].parse = "object")
              expected == ApplyFilters([i \in 1..Len(read) |-> transformWebhook(store[read[i]].fields)],
                                       res.params)
          IN  /\ {res.blobs[i] : i \in 1..Len(res.blobs)} = candidates
              /\ Len(res.blobs) = Cardinality(candidates)
              /\ res.status = 200 <=> ~expected.threw
              /\ res.status = 200 => res.total = Len(expected.list)
              /\ WholeResult => SameRecords(res.data, expected.list)
    /\ res.op = "getWebhookStats" =>
          {res.blobs[i] : i \in 1..Len(res.blobs)} = {k \in DOMAIN store : EndsWith(k, JsonExt)}
    /\ (res.op = "getWebhookById" /\ res.status = 200) =>
          (res.key \in DOMAIN store /\ EndsWith(res.key, JsonExt))

C17_ScopedToOneFolder ==
    /\ IsQuery
    /\ res.params.date = Str(<<"0","1">>)
    /\ DOMAIN store = {Key1, Key3, Key4}
    /\ res.blobs = <<Key1>>
    /\ res.status = 200
    /\ Len(res.data) = 1

\* C18: stats() scans the whole namespace and, for every successfully loaded
\* record, adds one to byMethod[upper-cased method] and one to byDate[date
\* component of receivedAt]; no other keys or counts appear in byMethod or
\* byDate.
C18_StatsCountEachLoadedRecord ==
    res.op = "getWebhookStats" =>
        LET loaded == {k \in DOMAIN store :
                          EndsWith(k, JsonExt) /\ k \notin res.failing /\ WellFormed(store[k])}
            methodOf == [k \in loaded |-> ToUpperCase(Canonical(store[k]).method.s)]
            dateOf == [k \in loaded |-> DateComponent(Canonical(store[k]).receivedAt.s)]
        IN  /\ res.status = 200
            /\ res.byMethod = CountBy(methodOf)
            /\ res.byDate = CountBy(dateOf)

\* C19: a record whose receivedAt cannot be parsed as a timestamp is placed
\* after every record with a valid timestamp in the getWebhooks result, and
\* its presence neither raises an error nor disturbs the descending order
\* of the records with a valid timestamp.
C19_UnparseableSortedLast ==
    IsQuery =>
        /\ NoFilter(res.params) => res.status = 200
        /\ res.status = 200 =>
               \A i, j \in 1..Len(res.data) :
                   i < j =>
                       /\ TimeIsNaN(res.data[i].receivedAt) => TimeIsNaN(res.data[j].receivedAt)
                       /\ (~TimeIsNaN(res.data[i].receivedAt) /\ ~TimeIsNaN(res.data[j].receivedAt))
                              => GetTime(res.data[i].receivedAt) >= GetTime(res.data[j].receivedAt)

\* C20: for every page and limit for which the index range
\* [(page-1)*limit, (page-1)*limit+limit) contains no valid index of the
\* filtered list (a page beyond the last, or a page of zero or below),
\* getWebhooks returns an empty data array with the correct total and no
\* error.
C20_OutOfRangePageIsEmpty ==
    (/\ IsQuery
     /\ ~ApplyFilters(res.webhooks, res.params).threw
     /\ \A n \in ((res.page - 1) * res.limit)..((res.page - 1) * res.limit + res.limit - 1) :
            n < 0 \/ n >= Len(ApplyFilters(res.webhooks, res.params).list))
        => /\ res.status = 200
           /\ res.data = <<>>
           /\ res.total = Len(ApplyFilters(res.webhooks, res.params).list)

\* C28: in every stats() result the sum of the byMethod counts equals the
\* sum of the byDate counts and both equal total, for every store content,
\* stores with unreadable blobs included.
C28_StatsSumsEqualTotal ==
    res.op = "getWebhookStats" =>
        /\ SumOf(res.byMethod) = SumOf(res.byDate)
        /\ SumOf(res.byMethod) = res.total

\* C21: when the connection string is absent the process still starts, and
\* every data operation (list, lookup, delete, dates, stats) is answered
\* with status 500 for a configuration error, having made no call to the
\* blob store; no container client is ever made.
C21_UnconfiguredFailsEveryOperation ==
    connectionString = <<>> =>
        /\ containerClient = "null"
        /\ res.op # "none" =>
              /\ res.status = 500
              /\ res.error = "configuration"
              /\ res.storeCalls = 0

\* A delete was asked of the unconfigured server over a container that
\* holds blobs, and was refused.
C21_UnconfiguredDeleteRefused ==
    /\ connectionString = <<>>
    /\ res.op = "deleteWebhook"
    /\ res.status = 500
    /\ Cardinality(DOMAIN store) = 2

\* C22: if the listing call fails, the operation (query, stats, dates,
\* lookup) fails as a whole and is answered with status 500; if only reads
\* of single blobs fail, those blobs are skipped and the operation still
\* completes: a query and the stats answer 200 without them, a lookup
\* answers with a blob that was read or with 404.
C22_ListingFailureFatalReadFailureSkipped ==
    (connectionString # <<>> /\ res.op \notin {"none", "deleteWebhook"}) =>
        /\ res.listThrows => (res.status = 500 /\ res.storeCalls = 1)
        /\ (~res.listThrows /\ res.op = "getAvailableDates") => res.status = 200
        /\ (~res.listThrows /\ res.op = "getWebhookStats") =>
              /\ res.status = 200
              /\ SumOf(res.byMethod) <= Len(ReadAndParsed(res.blobs, res.failing))
        /\ (~res.listThrows /\ res.op = "getWebhookById") =>
              /\ res.status \in {200, 404}
              /\ res.status = 200 => res.key \notin res.failing
        /\ (~res.listThrows /\ res.op = "getWebhooks"
               /\ (NoFilter(res.params)
                     \/ \A k \in DOMAIN store : WellFormed(store[k]) /\ IsPascal(store[k]))) =>
              /\ res.status = 200
              /\ Len(res.webhooks) = Len(ReadAndParsed(res.blobs, res.failing))

\* The listing call of a stats request failed over a container that holds
\* blobs.
C22_StatsListingFailed ==
    /\ connectionString # <<>>
    /\ res.op = "getWebhookStats"
    /\ res.listThrows
    /\ res.status = 500
    /\ DOMAIN store # {}

\* C24: for a fixed store content and a fixed query, the data returned by
\* getWebhooks is the same for every order in which the store lists the
\* blobs, also when several records share a receivedAt: the response is the
\* one that every other listing order of the same container would give.
C24_DataIndependentOfListingOrder ==
    (IsQuery /\ res.status = 200) =>
        \A order \in Reorderings(listOrder) :
            LET blobs == SelectSeq(Enumerate(order, store, PrefixOf(res.params.date)),
                                   LAMBDA k : EndsWith(k, JsonExt))
                filtered == ApplyFilters(ReadAll(store, blobs, res.failing), res.params)
                start == PageStart(res.page, res.limit)
            IN  /\ ~filtered.threw
                /\ \A sorted \in SortOutcomes(filtered.list) :
                      Slice(sorted, start, start + res.limit) = res.data

\* C25: on an unchanged store, for a fixed filter and a limit L >= 1, every
\* page holds at most L records, and the data of pages 1, 2, ...,
\* ceil(T/L) one after the other is the sorted result: each filtered
\* record exactly once, in the sorted order.
C25_PagesPartitionTheResult ==
    pager.state = "done" =>
        LET limit == pager.params.limit.n
            filtered == ApplyFilters(ReadAll(store, listBlobs(store, PrefixOf(pager.params.date)), {}),
                                     pager.params)
            last == CeilDiv(pager.total, limit)
        IN  /\ \A i \in 1..Len(pager.pages) : Len(pager.pages[i]) <= limit
            /\ Len(pager.pages) >= last
            /\ Concat(SubSeq(pager.pages, 1, last)) = pager.sorted
            /\ ~filtered.threw
            /\ SameRecords(pager.sorted, filtered.list)
            /\ pager.total = Len(filtered.list)

\* Three records were read in three pages of one record each.
C25_ThreePagesOfOne ==
    /\ pager.state = "done"
    /\ pager.params.limit.n = 1
    /\ Len(pager.pages) = 3
    /\ \A i \in 1..3 : Len(pager.pages[i]) = 1

\* C26: query, stats, listDates and findById never modify the blob
\* namespace: a step of one of them leaves the stored keys and their
\* contents as they were; the only step that changes the container is a
\* deleteById that succeeds, and it removes one blob and changes no other.
C26_OnlyDeleteChangesTheStore ==
    [][ /\ res'.op \in {"getWebhooks", "getWebhookStats", "getAvailableDates", "getWebhookById"}
            => store' = store
        /\ store' # store =>
              /\ res'.op = "deleteWebhook"
              /\ res'.status = 204
              /\ \E k \in DOMAIN store :
                    store' = [j \in DOMAIN store \ {k} |-> store[j]] ]_vars

\* A stats request read three blobs and the container still holds three.
C26_StatsReadThreeBlobs ==
    /\ res.op = "getWebhookStats"
    /\ res.storeCalls = 4
    /\ Cardinality(DOMAIN store) = 3

\* C23: when two deleteById calls for the same id interleave in any way
\* over a store that holds one matching blob, at most one of them returns
\* success and the other NotFound, neither ends in an error, and the blob
\* is gone afterwards.
C23_RacingDeletesOneWinner ==
    (/\ \A c \in Callers : calls[c].pc = "done"
     /\ calls[1].id = calls[2].id
     /\ Cardinality(HasId(calls[1].before, calls[1].id)) = 1) =>
        /\ \A c \in Callers : calls[c].status \in {204, 404}
        /\ \E c \in Callers : calls[c].status = 404
        /\ HasId(store, calls[1].id) = {}

\* C29: in WebhookListPage, after any sequence of user actions, every
\* change of search, conversationId, date, method or page size sets page
\* back to 1, and a page change alone leaves every filter and the page
\* size unchanged.
C29_FilterChangeResetsPage ==
    [][ /\ ListPageFilters(listPage') # ListPageFilters(listPage) => listPage'.page = 1
        /\ listPage'.handler # "handlePageChange" => listPage'.page = 1
        /\ listPage'.handler = "handlePageChange"
              => ListPageFilters(listPage') = ListPageFilters(listPage) ]_vars

\* Every filter is set and the page size is the largest; the method was
\* picked last and the page is 1.
C29_AllFiltersSetOnPageOne ==
    /\ listPage.handler = "handleMethodChange"
    /\ listPage.page = 1
    /\ listPage.pageSize = 100
    /\ listPage.search # Str(<<>>)
    /\ listPage.conversationId # Str(<<>>)
    /\ Truthy(listPage.date)
    /\ Truthy(listPage.method)

\* C27: in the dashboard, pressing Escape outside an input clears the
\* selection: afterwards no webhook is selected, and it stays unselected
\* until the user selects one, even while the filtered list is non-empty.
C27_EscapeClearsSelection ==
    (dashboard.state = "mounted" /\ dashboard.cleared) => dashboard.selectedWebhook = NoWebhook

\* C30: in the dashboard, after any sequence of filter changes, data
\* refreshes, clicks and j/k/arrow key presses, once the effects of the
\* last event have run the selected webhook is either null or a member of
\* the filtered list on display; j/ArrowDown never moves the selection
\* past the last item nor k/ArrowUp before the first.
C30_SelectionWithinList ==
    [][ LET list == filteredWebhooks(dashboard')
            before == findIndex(filteredWebhooks(dashboard), dashboard.selectedWebhook)
            after == findIndex(list, dashboard'.selectedWebhook)
        IN  /\ ~dashboard'.effects =>
                  (dashboard'.selectedWebhook = NoWebhook \/ after >= 0)
            /\ (dashboard'.event \in Keys_ArrowDown /\ before = Len(list) - 1)
                  => dashboard'.selectedWebhook = dashboard.selectedWebhook
            /\ (dashboard'.event \in Keys_ArrowUp /\ before = 0)
                  => dashboard'.selectedWebhook = dashboard.selectedWebhook ]_vars

====
